---- MODULE Spec2Model ----
(***************************************************************************)
(* A model of src/app.py, the sales dashboard script: load_data (column    *)
(* check and cleaning), the sidebar filters, the filtered view, the KPI    *)
(* metrics and the four grouped aggregates.  The CSV file is the input;    *)
(* one run of the script is load_data followed by the dashboard body.      *)
(* Numbers are exact integers and means are exact fractions.               *)
(***************************************************************************)
EXTENDS Integers, Sequences, FiniteSets, TLC

VARIABLES
    raw,              \* train.csv: [exists, columns, rows], the cells as text
    pc,               \* "start", "loaded", "done", "halted"
    line,             \* the last line of app.py the run reached
    err,              \* what stopped the run, "none" while it runs
    missing_cols,     \* the set named by the st.error of line 39
    df,               \* the value load_data returned
    countries, years, months,     \* the sidebar widgets' values
    filtered_df,
    total_sales, total_customers, total_orders, avg_order_value,
    sales_by_year, country_sales, monthly_sales, aov_country

vars == <<raw, pc, line, err, missing_cols, df, countries, years, months, filtered_df,
          total_sales, total_customers, total_orders, avg_order_value,
          sales_by_year, country_sales, monthly_sales, aov_country>>

-----------------------------------------------------------------------------
(* Bounds of the model *)

MaxRows == 2          \* rows of a CSV file with few countries
MaxCountries == 11    \* countries of a CSV file with one row per country
NumLimit == 20        \* to_numeric recognises the integers -NumLimit..NumLimit

-----------------------------------------------------------------------------
(* Values *)

NoFile == [exists |-> FALSE, columns |-> <<>>, rows |-> <<>>]
NaN == "NaN"          \* the missing value of a text column
NaNum == <<>>         \* the missing value of a numeric column; <<n>> is the number n
NaT == <<>>           \* the missing timestamp; <<d>> is the timestamp d
NaNMean == [num |-> 0, den |-> 0]     \* the mean of nothing
Zero == [num |-> 0, den |-> 1]        \* the number 0 as a fraction

RECURSIVE SumSeq(_)
SumSeq(s) == IF s = <<>> THEN 0 ELSE Head(s) + SumSeq(Tail(s))

RECURSIVE SortedInts(_)
\* the integers of S in ascending order
SortedInts(S) ==
    IF S = {} THEN <<>>
    ELSE LET x == CHOOSE y \in S : \A z \in S : y <= z
         IN <<x>> \o SortedInts(S \ {x})

Range(s) == {s[i] : i \in 1..Len(s)}

-----------------------------------------------------------------------------
(* Column names, as sequences of characters *)

UpperLetters == <<"A","B","C","D","E","F","G","H","I","J","K","L","M",
                  "N","O","P","Q","R","S","T","U","V","W","X","Y","Z">>
LowerLetters == <<"a","b","c","d","e","f","g","h","i","j","k","l","m",
                  "n","o","p","q","r","s","t","u","v","w","x","y","z">>

Characters == Range(UpperLetters) \cup Range(LowerLetters) \cup {" "}

\* str.lower, character by character
lower_table ==
    [ch \in Characters |->
        IF \E i \in 1..Len(UpperLetters) : UpperLetters[i] = ch
        THEN LowerLetters[CHOOSE i \in 1..Len(UpperLetters) : UpperLetters[i] = ch]
        ELSE ch]

lower_char(ch) == lower_table[ch]

str_lower(name) == [i \in 1..Len(name) |-> lower_char(name[i])]

RECURSIVE lstrip(_)
lstrip(name) ==
    IF name # <<>> /\ Head(name) = " " THEN lstrip(Tail(name)) ELSE name

RECURSIVE rstrip(_)
rstrip(name) ==
    IF name # <<>> /\ name[Len(name)] = " "
    THEN rstrip(SubSeq(name, 1, Len(name) - 1)) ELSE name

str_strip(name) == rstrip(lstrip(name))

\* the names lowercased but not stripped
normalize_columns_lower_only(columns) ==
    [i \in 1..Len(columns) |-> str_lower(columns[i])]

\* line 25: df.columns.str.strip().str.lower()
normalize_columns(columns) ==
    [i \in 1..Len(columns) |-> str_lower(str_strip(columns[i]))]

col_country     == <<"c","o","u","n","t","r","y">>
col_invoicedate == <<"i","n","v","o","i","c","e","d","a","t","e">>
col_quantity    == <<"q","u","a","n","t","i","t","y">>
col_unitprice   == <<"u","n","i","t","p","r","i","c","e">>
col_customerid  == <<"c","u","s","t","o","m","e","r","i","d">>
col_invoiceno   == <<"i","n","v","o","i","c","e","n","o">>

\* lines 28-35
required_cols == {col_country, col_invoicedate, col_quantity, col_unitprice,
                  col_customerid, col_invoiceno}

\* line 37: required_cols - set(df.columns), on the normalized names
missing_cols_of(columns) == required_cols \ Range(normalize_columns(columns))

-----------------------------------------------------------------------------
(* Cell conversions *)

Years == {2010, 2011}
Months == 1..12

\* the text of a date of year y and month m, as the CSV holds it
DateText(y, m) ==
    ToString(y) \o "-" \o (IF m < 10 THEN "0" ELSE "") \o ToString(m) \o "-05"

\* read_csv: an empty field is a missing value
read_cell(text) == IF text = "" THEN NaN ELSE text

\* the texts that are dates, and the texts that are numbers
date_texts == [d \in [year : Years, month : Months] |-> DateText(d.year, d.month)]
number_texts == [n \in -NumLimit..NumLimit |-> ToString(n)]

\* line 43: pd.to_datetime(..., errors="coerce")
to_datetime(cell) ==
    IF \E d \in DOMAIN date_texts : date_texts[d] = cell
    THEN <<CHOOSE d \in DOMAIN date_texts : date_texts[d] = cell>>
    ELSE NaT

\* lines 44-45: pd.to_numeric(..., errors="coerce")
to_numeric(cell) ==
    IF \E n \in DOMAIN number_texts : number_texts[n] = cell
    THEN <<CHOOSE n \in DOMAIN number_texts : number_texts[n] = cell>>
    ELSE NaNum

-----------------------------------------------------------------------------
(* load_data, lines 17-51 *)

\* df[name] for a normalized column name: the position of the column
column_index(columns, name) ==
    LET names == normalize_columns(columns)
    IN CHOOSE i \in 1..Len(columns) : names[i] = name

\* the frame after lines 43-45: one typed record per raw row, idx is the row label
coerced_rows(table) ==
    LET country     == column_index(table.columns, col_country)
        invoicedate == column_index(table.columns, col_invoicedate)
        quantity    == column_index(table.columns, col_quantity)
        unitprice   == column_index(table.columns, col_unitprice)
        customerid  == column_index(table.columns, col_customerid)
        invoiceno   == column_index(table.columns, col_invoiceno)
    IN [i \in 1..Len(table.rows) |->
          [idx         |-> i,
           country     |-> read_cell(table.rows[i][country]),
           invoicedate |-> to_datetime(read_cell(table.rows[i][invoicedate])),
           quantity    |-> to_numeric(read_cell(table.rows[i][quantity])),
           unitprice   |-> to_numeric(read_cell(table.rows[i][unitprice])),
           customerid  |-> read_cell(table.rows[i][customerid]),
           invoiceno   |-> read_cell(table.rows[i][invoiceno])]]

\* line 47: dropna(subset=["invoicedate", "quantity", "unitprice"])
dropna(rows) ==
    SelectSeq(rows, LAMBDA r :
        r.invoicedate # NaT /\ r.quantity # NaNum /\ r.unitprice # NaNum)

\* line 48: df["sales"] = df["quantity"] * df["unitprice"]
with_sales(rows) ==
    [i \in 1..Len(rows) |->
        [idx |-> rows[i].idx, country |-> rows[i].country,
         invoicedate |-> rows[i].invoicedate[1], quantity |-> rows[i].quantity[1],
         unitprice |-> rows[i].unitprice[1], customerid |-> rows[i].customerid,
         invoiceno |-> rows[i].invoiceno,
         sales |-> rows[i].quantity[1] * rows[i].unitprice[1]]]

\* the sales filter with >= for >
positive_sales_or_zero(rows) == SelectSeq(rows, LAMBDA r : r.sales >= 0)

\* the sales filter left out
positive_sales_all(rows) == rows

\* line 49: df[df["sales"] > 0]
positive_sales(rows) == SelectSeq(rows, LAMBDA r : r.sales > 0)

\* lines 43-51
clean(table) == positive_sales(with_sales(dropna(coerced_rows(table))))

\* load_data with a check that two calendar years remain
load_data_two_years(file) ==
    IF ~file.exists
    THEN [err |-> "FileNotFound", line |-> 22, missing |-> {}, df |-> <<>>]
    ELSE IF missing_cols_of(file.columns) # {}
    THEN [err |-> "MissingColumns", line |-> 40,
          missing |-> missing_cols_of(file.columns), df |-> <<>>]
    ELSE IF Cardinality({clean(file)[i].invoicedate.year : i \in 1..Len(clean(file))}) < 2
    THEN [err |-> "DataSufficiencyError", line |-> 51, missing |-> {}, df |-> <<>>]
    ELSE [err |-> "none", line |-> 54, missing |-> {}, df |-> clean(file)]

\* what load_data does with the file: the error it stops with, or the frame it returns
load_data(file) ==
    IF ~file.exists
    THEN [err |-> "FileNotFound", line |-> 22, missing |-> {}, df |-> <<>>]
    ELSE IF missing_cols_of(file.columns) # {}
    THEN [err |-> "MissingColumns", line |-> 40,
          missing |-> missing_cols_of(file.columns), df |-> <<>>]
    ELSE [err |-> "none", line |-> 54, missing |-> {}, df |-> clean(file)]

-----------------------------------------------------------------------------
(* The sidebar, lines 69-89 *)

\* line 71: the options of the country multiselect
country_options(frame) == {frame[i].country : i \in 1..Len(frame)}

\* the selections of the country multiselect that are tried: all, none, all but one
country_choices(frame) ==
    {country_options(frame), {}} \cup
    {country_options(frame) \ {c} : c \in country_options(frame)}

year_values(frame) == {frame[i].invoicedate.year : i \in 1..Len(frame)}

min_year(frame) == CHOOSE y \in year_values(frame) : \A z \in year_values(frame) : y <= z
max_year(frame) == CHOOSE y \in year_values(frame) : \A z \in year_values(frame) : y >= z

\* lines 75-83: the ranges the slider can return
year_choices(frame) ==
    {<<lo, hi>> : lo \in min_year(frame)..max_year(frame),
                  hi \in min_year(frame)..max_year(frame)} \cap
    {r \in Int \X Int : r[1] <= r[2]}

\* lines 85-89: the selections of the month multiselect that are tried
month_choices == {{}, {1}, Months}

-----------------------------------------------------------------------------
(* The filtered view, lines 94-98 *)

\* between with the upper bound left out
between_open(x, lo, hi) == lo <= x /\ x < hi

between(x, lo, hi) == lo <= x /\ x <= hi

filter_rows(frame, cs, ys, ms) ==
    SelectSeq(frame, LAMBDA r :
        /\ r.country \in cs
        /\ between(r.invoicedate.year, ys[1], ys[2])
        /\ r.invoicedate.month \in ms)

-----------------------------------------------------------------------------
(* KPI metrics, lines 103-109 *)

sales_column(view) == [i \in 1..Len(view) |-> view[i].sales]

\* Series.nunique(): the missing value is not counted
nunique(values) == Cardinality(values \ {NaN})

\* groupby(key)["sales"].sum(): one sum per key present, rows with a missing key left out
invoice_keys(view) == {view[i].invoiceno : i \in 1..Len(view)} \ {NaN}
country_keys(view) == {view[i].country : i \in 1..Len(view)} \ {NaN}

sales_by_invoice(view) ==
    [k \in invoice_keys(view) |->
        SumSeq(sales_column(SelectSeq(view, LAMBDA r : r.invoiceno = k)))]

sales_by_country(view) ==
    [k \in country_keys(view) |->
        SumSeq(sales_column(SelectSeq(view, LAMBDA r : r.country = k)))]

RECURSIVE SumOver(_, _)
SumOver(f, S) ==
    IF S = {} THEN 0
    ELSE LET k == CHOOSE x \in S : TRUE IN f[k] + SumOver(f, S \ {k})

\* Series.mean(): a fraction, NaN for an empty series
mean(f) ==
    IF DOMAIN f = {} THEN NaNMean
    ELSE [num |-> SumOver(f, DOMAIN f), den |-> Cardinality(DOMAIN f)]

\* line 103
total_sales_of(view) == SumSeq(sales_column(view))

\* line 104
total_customers_of(view) == nunique({view[i].customerid : i \in 1..Len(view)})

\* line 105
total_orders_of(view) == nunique({view[i].invoiceno : i \in 1..Len(view)})

\* the mean of the lines' sales instead of the mean of the invoices' sums
avg_order_value_per_line(view) ==
    IF total_orders_of(view) > 0
    THEN [num |-> total_sales_of(view), den |-> Len(view)] ELSE Zero

\* the mean without the guard on total_orders
avg_order_value_unguarded(view) == mean(sales_by_invoice(view))

\* lines 106-109
avg_order_value_of(view) ==
    IF total_orders_of(view) > 0 THEN mean(sales_by_invoice(view)) ELSE Zero

-----------------------------------------------------------------------------
(* Grouped aggregates, lines 122-193 *)

head(s, n) == SubSeq(s, 1, IF Len(s) < n THEN Len(s) ELSE n)

\* lines 122-127: one row per year present, ascending
sales_by_year_of(view) ==
    LET ys == SortedInts({view[i].invoicedate.year : i \in 1..Len(view)})
    IN [j \in 1..Len(ys) |->
          [invoicedate |-> ys[j],
           total_sales |-> SumSeq(sales_column(
               SelectSeq(view, LAMBDA r : r.invoicedate.year = ys[j])))]]

\* lines 167-171: one row per month present, ascending
monthly_sales_of(view) ==
    LET ms == SortedInts({view[i].invoicedate.month : i \in 1..Len(view)})
    IN [j \in 1..Len(ms) |->
          [invoicedate |-> ms[j],
           total_sales |-> SumSeq(sales_column(
               SelectSeq(view, LAMBDA r : r.invoicedate.month = ms[j])))]]

RECURSIVE sort_values_desc(_)
\* sort_values("sales", ascending=False) with the default quicksort, which is not
\* stable: every descending arrangement of the rows is a possible result
sort_values_desc(rows) ==
    IF rows = {} THEN {<<>>}
    ELSE UNION {{<<r>> \o rest : rest \in sort_values_desc(rows \ {r})} :
                r \in {x \in rows : \A z \in rows : x.sales >= z.sales}}

\* head(11) for head(10)
country_sales_top11(view) ==
    {head(s, 11) :
        s \in sort_values_desc({[country |-> k, sales |-> sales_by_country(view)[k]] :
                                  k \in country_keys(view)})}

RECURSIVE sort_values_asc(_)
sort_values_asc(rows) ==
    IF rows = {} THEN {<<>>}
    ELSE UNION {{<<r>> \o rest : rest \in sort_values_asc(rows \ {r})} :
                r \in {x \in rows : \A z \in rows : x.sales <= z.sales}}

\* ascending=True for ascending=False
country_sales_ascending(view) ==
    {head(s, 10) :
        s \in sort_values_asc({[country |-> k, sales |-> sales_by_country(view)[k]] :
                                 k \in country_keys(view)})}

\* lines 144-150
country_sales_of(view) ==
    {head(s, 10) :
        s \in sort_values_desc({[country |-> k, sales |-> sales_by_country(view)[k]] :
                                  k \in country_keys(view)})}

\* x ranks at least as high as z under sort_values(ascending=False), NaN last
aov_geq(x, z) ==
    \/ z = NaNMean
    \/ x # NaNMean /\ x.num * z.den >= z.num * x.den

RECURSIVE sort_aov_desc(_)
sort_aov_desc(rows) ==
    IF rows = {} THEN {<<>>}
    ELSE UNION {{<<r>> \o rest : rest \in sort_aov_desc(rows \ {r})} :
                r \in {x \in rows : \A z \in rows :
                          aov_geq(x.avg_order_value, z.avg_order_value)}}

\* lines 187-193, for a view with at least one row
aov_country_of(view) ==
    {head(s, 10) :
        s \in sort_aov_desc(
            {[country |-> k,
              avg_order_value |->
                  mean(sales_by_invoice(SelectSeq(view, LAMBDA r : r.country = k)))] :
             k \in country_keys(view)})}

-----------------------------------------------------------------------------
(* The CSV files tried *)

\* a row in the file's column order: InvoiceNo, Quantity, InvoiceDate, UnitPrice,
\* CustomerID, Country
RawRow(inv, q, d, p, cust, c) == <<inv, q, d, p, cust, c>>

header_lower == <<col_invoiceno, col_quantity, col_invoicedate, col_unitprice,
                  col_customerid, col_country>>

header_mixed == <<<<"I","n","v","o","i","c","e","N","o">>,
                  <<"Q","u","a","n","t","i","t","y">>,
                  <<"I","n","v","o","i","c","e","D","a","t","e">>,
                  <<"U","n","i","t","P","r","i","c","e">>,
                  <<"C","u","s","t","o","m","e","r","I","D">>,
                  <<"C","o","u","n","t","r","y">>>>

header_padded == [i \in 1..6 |-> <<" ">> \o header_mixed[i] \o <<" ", " ">>]

\* "Customer ID": the blank inside the name is not stripped
header_inner_blank ==
    [header_mixed EXCEPT ![5] = <<"C","u","s","t","o","m","e","r"," ","I","D">>]

\* the sequence s without the positions in drop
RECURSIVE without(_, _)
without(s, drop) ==
    IF s = <<>> THEN <<>>
    ELSE (IF Len(s) \in drop THEN <<>> ELSE <<s[Len(s)]>>)
         \o without(SubSeq(s, 1, Len(s) - 1), drop) 

reverse(s) == [i \in 1..Len(s) |-> s[Len(s) + 1 - i]]

drop_columns(table, drop) ==
    [exists |-> table.exists,
     columns |-> reverse(without(table.columns, drop)),
     rows |-> [i \in 1..Len(table.rows) |-> reverse(without(table.rows[i], drop))]]

\* lines with positive sales: two lines of invoice 536365, one of invoice 536366,
\* and lines with no invoice number and no customer
line_rows ==
    {RawRow("536365", "2", d, "5", "17850", c) :
        d \in {DateText(2010, 1), DateText(2011, 12)},
        c \in {"United Kingdom", "France"}} \cup
    {RawRow("536365", "2", DateText(2010, 12), "5", "17850", "United Kingdom"),
     RawRow("536365", "1", DateText(2010, 1), "5", "17850", "United Kingdom"),
     RawRow("536365", "1", DateText(2011, 12), "5", "17850", "France"),
     RawRow("536366", "2", DateText(2010, 1), "5", "13047", "United Kingdom"),
     RawRow("", "1", DateText(2010, 1), "5", "", "United Kingdom"),
     RawRow("", "1", DateText(2011, 12), "5", "", "France")}

\* lines with negative numbers, unusable cells, no sales, or no country
odd_rows ==
    {RawRow("536365", "-1", DateText(2010, 1), "-5", "17850", "United Kingdom"),
     RawRow("536365", "2", "not a date", "5", "17850", "United Kingdom"),
     RawRow("536365", "abc", DateText(2010, 1), "5", "17850", "United Kingdom"),
     RawRow("536365", "2", DateText(2010, 1), "", "17850", "United Kingdom"),
     RawRow("536365", "0", DateText(2010, 1), "5", "17850", "United Kingdom"),
     RawRow("C536379", "-1", DateText(2011, 12), "5", "17850", "United Kingdom"),
     RawRow("536365", "2", DateText(2010, 1), "5", "17850", "")}

raw_rows == line_rows \cup odd_rows

RowSeqs(n) == UNION {[1..k -> raw_rows] : k \in 0..n}

country_names == <<"Australia", "Belgium", "Cyprus", "Denmark", "EIRE", "France",
                   "Germany", "Hong Kong", "Iceland", "Japan", "Lebanon", "Malta">>

country_name(i) ==
    IF i <= Len(country_names) THEN country_names[i] ELSE "Country " \o ToString(i)

\* one row per country, n countries; with tie = 1 the first four countries sell the
\* same in pairs
wide_rows(n, tie) ==
    [i \in 1..n |->
        RawRow(ToString(536364 + i), "1", DateText(2010, 1),
               ToString(i + (IF i <= 4 THEN tie * (i % 2) ELSE 0)), "17850",
               country_name(i))]

small_files == {[exists |-> TRUE, columns |-> header_lower, rows |-> rs] : rs \in RowSeqs(MaxRows)}

wide_files ==
    {[exists |-> TRUE, columns |-> header_mixed, rows |-> wide_rows(n, tie)] :
        n \in 9..MaxCountries, tie \in {0, 1}}

styled_files ==
    {[exists |-> TRUE, columns |-> h, rows |-> rs] :
        h \in {header_mixed, header_padded, header_inner_blank}, rs \in RowSeqs(1)}

short_files ==
    {drop_columns([exists |-> TRUE, columns |-> h, rows |-> <<r>>], drop) :
        h \in {header_lower, header_padded},
        r \in {RawRow("536365", "2", DateText(2010, 1), "5", "17850", "France")},
        drop \in SUBSET (1..6) \ {{}}}

csv_files == {NoFile} \cup small_files \cup wide_files \cup styled_files \cup short_files

-----------------------------------------------------------------------------
(* The script *)

Init ==
    /\ raw \in csv_files
    /\ pc = "start"
    /\ line = 0
    /\ err = "none"
    /\ missing_cols = {}
    /\ df = <<>>
    /\ countries = {} /\ years = <<0, 0>> /\ months = {}
    /\ filtered_df = <<>>
    /\ total_sales = 0 /\ total_customers = 0
    /\ total_orders = 0 /\ avg_order_value = Zero
    /\ sales_by_year = <<>> /\ country_sales = <<>>
    /\ monthly_sales = <<>> /\ aov_country = <<>>

widgets == <<countries, years, months>>
outputs == <<filtered_df, total_sales, total_customers, total_orders, avg_order_value,
             sales_by_year, country_sales, monthly_sales, aov_country>>

\* line 54, df = load_data(): st.stop() after an st.error ends the run
LoadData ==
    /\ pc = "start"
    /\ err' = load_data(raw).err
    /\ line' = load_data(raw).line
    /\ missing_cols' = load_data(raw).missing
    /\ df' = load_data(raw).df
    /\ pc' = IF load_data(raw).err = "none" THEN "loaded" ELSE "halted"
    /\ UNCHANGED <<raw, widgets, outputs>>

\* line 71: sorted() cannot order a missing country among the names, and a missing
\* country is no valid default of the multiselect
SidebarMissingCountry ==
    /\ pc = "loaded"
    /\ NaN \in country_options(df)
    /\ pc' = "halted"
    /\ line' = 71
    /\ err' = "TypeError"
    /\ UNCHANGED <<raw, missing_cols, df, widgets, outputs>>

\* line 77: int() of the minimum year of an empty frame, which is NaN
SidebarNoYear ==
    /\ pc = "loaded"
    /\ df = <<>>
    /\ pc' = "halted"
    /\ line' = 77
    /\ err' = "ValueError"
    /\ UNCHANGED <<raw, missing_cols, df, widgets, outputs>>

\* lines 69-211 with the widgets' values cs, ys, ms
Dashboard ==
    /\ pc = "loaded"
    /\ df # <<>>
    /\ NaN \notin country_options(df)
    /\ \E cs \in country_choices(df), ys \in year_choices(df), ms \in month_choices :
         LET view == filter_rows(df, cs, ys, ms) IN
         /\ countries' = cs /\ years' = ys /\ months' = ms
         /\ filtered_df' = view
         /\ total_sales' = total_sales_of(view)
         /\ total_customers' = total_customers_of(view)
         /\ total_orders' = total_orders_of(view)
         /\ avg_order_value' = avg_order_value_of(view)
         /\ sales_by_year' = sales_by_year_of(view)
         /\ country_sales' \in country_sales_of(view)
         /\ monthly_sales' = monthly_sales_of(view)
         /\ IF view = <<>>
            THEN \* lines 187-190: groupby().apply() of an empty frame is a DataFrame,
                 \* and DataFrame.reset_index() takes no argument "name"
                 /\ aov_country' = <<>>
                 /\ pc' = "halted"
                 /\ line' = 187
                 /\ err' = "TypeError"
            ELSE /\ aov_country' \in aov_country_of(view)
                 /\ pc' = "done"
                 /\ line' = 211
                 /\ err' = "none"
    /\ UNCHANGED <<raw, missing_cols, df>>

\* a widget is changed: the script runs again, load_data's result is cached (line 16)
Rerun ==
    /\ pc \in {"done", "halted"}
    /\ line > 54
    /\ pc' = "loaded"
    /\ line' = 54
    /\ err' = "none"
    /\ countries' = {} /\ years' = <<0, 0>> /\ months' = {}
    /\ filtered_df' = <<>>
    /\ total_sales' = 0 /\ total_customers' = 0
    /\ total_orders' = 0 /\ avg_order_value' = Zero
    /\ sales_by_year' = <<>> /\ country_sales' = <<>>
    /\ monthly_sales' = <<>> /\ aov_country' = <<>>
    /\ UNCHANGED <<raw, missing_cols, df>>

Next == LoadData \/ SidebarMissingCountry \/ SidebarNoYear \/ Dashboard \/ Rerun

Spec == Init /\ [][Next]_vars

-----------------------------------------------------------------------------
(* Properties *)

\* load_data returned a frame
Loaded == line >= 54

\* the dashboard body computed the filtered view, the KPIs and the first three
\* aggregates (it stands at line 187 or has reached the end)
Computed == line \in {187, 211}

\* the roles with no column of that name once blanks around the name are removed
\* and its letters are lowercased
absent_roles ==
    LET names == {str_lower(str_strip(raw.columns[i])) : i \in 1..Len(raw.columns)}
    IN {c \in required_cols : c \notin names}

\* the file exists and has the six columns
SchemaOk == raw.exists /\ absent_roles = {}

\* a coerced row has a date and two numbers, and the product of the numbers is positive
usable(c) ==
    /\ c.invoicedate # NaT /\ c.quantity # NaNum /\ c.unitprice # NaNum
    /\ c.quantity[1] * c.unitprice[1] > 0

\* the labels of the usable rows of the file, and the years of their dates
usable_rows ==
    LET rows == coerced_rows(raw) IN {k \in 1..Len(rows) : usable(rows[k])}

remaining_years ==
    LET rows == coerced_rows(raw)
    IN {rows[k].invoicedate[1].year : k \in {j \in 1..Len(rows) : usable(rows[j])}}

passes(r) ==
    /\ r.country \in countries
    /\ years[1] <= r.invoicedate.year /\ r.invoicedate.year <= years[2]
    /\ r.invoicedate.month \in months

view_countries == {filtered_df[i].country : i \in 1..Len(filtered_df)}

country_total(c) ==
    SumSeq([i \in 1..Len(filtered_df) |->
               IF filtered_df[i].country = c THEN filtered_df[i].sales ELSE 0])

top_total == SumSeq([i \in 1..Len(country_sales) |-> country_sales[i].sales])

first_seen(c) == CHOOSE i \in 1..Len(filtered_df) :
    /\ filtered_df[i].country = c
    /\ \A j \in 1..(i - 1) : filtered_df[j].country # c

Min(a, b) == IF a <= b THEN a ELSE b

\* C1: a record of the dataset is in the filtered view iff its country is selected,
\* its year lies in the inclusive year range and its month is selected (the month
\* selection is always present in the script); the view keeps the dataset's order
\* and holds only records of the dataset.
C1_FilterMembership ==
    Computed =>
        /\ \A i \in 1..Len(df) :
              (\E j \in 1..Len(filtered_df) : filtered_df[j] = df[i]) <=> passes(df[i])
        /\ \A j \in 1..Len(filtered_df) : \E i \in 1..Len(df) : filtered_df[j] = df[i]
        /\ \A j, k \in 1..Len(filtered_df) :
              j < k => filtered_df[j].idx < filtered_df[k].idx

\* a view that keeps one record and leaves out another whose country and month are
\* selected, so that its year put it out
C1_Witness ==
    /\ Computed
    /\ Len(filtered_df) >= 1
    /\ \E i \in 1..Len(df) :
          /\ df[i].country \in countries /\ df[i].invoicedate.month \in months
          /\ \A j \in 1..Len(filtered_df) : filtered_df[j] # df[i]

\* C2: every record load_data returns has a parsed date, a numeric quantity and unit
\* price, sales = quantity * unitprice and sales > 0; every raw row without one of
\* these is dropped, and load_data raises no error over it.
C2_CleanRecords ==
    (pc # "start" /\ SchemaOk) =>
        LET rows == coerced_rows(raw) IN
        /\ Loaded
        /\ \A i \in 1..Len(df) :
              LET c == rows[df[i].idx] IN
              /\ c.invoicedate = <<df[i].invoicedate>>
              /\ c.quantity = <<df[i].quantity>>
              /\ c.unitprice = <<df[i].unitprice>>
              /\ df[i].sales = df[i].quantity * df[i].unitprice
              /\ df[i].sales > 0
        /\ \A k \in 1..Len(rows) :
              ~usable(rows[k]) => \A i \in 1..Len(df) : df[i].idx # k

\* a file of which load_data kept a row and dropped a row
C2_Witness ==
    /\ pc = "loaded"
    /\ Len(df) >= 1
    /\ Len(df) < Len(raw.rows)

\* C3: with at least one order, avg_order_value is the sum of the per-invoice sales
\* sums divided by total_orders, not the mean of the lines' sales.
C3_AvgOrderValue ==
    (Computed /\ total_orders > 0) =>
        /\ avg_order_value.den > 0
        /\ avg_order_value.num * total_orders =
              avg_order_value.den *
                  SumSeq([i \in 1..Len(filtered_df) |->
                             IF filtered_df[i].invoiceno # NaN
                             THEN filtered_df[i].sales ELSE 0])

\* two lines of sales 10 and 5 on one invoice: avg_order_value is 15
C3_Witness ==
    /\ Computed
    /\ Len(filtered_df) = 2 /\ total_orders = 1 /\ total_sales = 15
    /\ avg_order_value.num = 15 * avg_order_value.den

\* C4: when total_orders is 0, avg_order_value is 0, also for a view that has rows
\* but no invoice number.
C4_NoOrders ==
    (Computed /\ total_orders = 0) => avg_order_value = Zero

\* a view with rows, none of which has an invoice number
C4_Witness ==
    /\ Computed
    /\ filtered_df # <<>>
    /\ total_orders = 0
    /\ avg_order_value = Zero

\* C5: the sales listed in country_sales sum to at most total_sales, and to exactly
\* total_sales iff the view has at most 10 distinct countries.
C5_TopCountriesTotal ==
    Computed =>
        /\ top_total <= total_sales
        /\ top_total = total_sales <=> Cardinality(view_countries) <= 10

\* a view of more than 10 countries, whose listed sales fall short of total_sales
C5_Witness ==
    /\ Computed
    /\ Cardinality(view_countries) > 10
    /\ top_total < total_sales

\* C6: a filter that matches no record gives an empty view, and the run ends without
\* error with all four KPIs 0 and all four aggregates empty.
C6_EmptyView ==
    (Computed /\ filtered_df = <<>>) =>
        /\ pc = "done" /\ err = "none"
        /\ total_sales = 0 /\ total_customers = 0 /\ total_orders = 0
        /\ avg_order_value = Zero
        /\ sales_by_year = <<>> /\ country_sales = <<>>
        /\ monthly_sales = <<>> /\ aov_country = <<>>

C8_SchemaCheck ==
    (pc # "start" /\ raw.exists) =>
        /\ absent_roles # {} =>
              /\ pc = "halted" /\ err = "MissingColumns" /\ line = 40
              /\ missing_cols = absent_roles
              /\ df = <<>> /\ filtered_df = <<>> /\ country_sales = <<>>
        /\ absent_roles = {} => (err # "MissingColumns" /\ missing_cols = {} /\ Loaded)

\* a file whose only absent role is customerid
C8_Witness ==
    /\ pc = "halted"
    /\ err = "MissingColumns"
    /\ missing_cols = {col_customerid}

\* C9, amended: country_sales has min(10, number of countries in the view) rows, one
\* per country with its summed sales, in descending order of sales, and no country
\* left out sold more than a listed one; countries with equal sales come in no fixed
\* order (groupby orders them by name and the default sort is not stable).
C9_TopCountries ==
    Computed =>
        /\ Len(country_sales) = Min(10, Cardinality(view_countries))
        /\ \A i \in 1..Len(country_sales) :
              /\ country_sales[i].country \in view_countries
              /\ country_sales[i].sales = country_total(country_sales[i].country)
        /\ \A i, j \in 1..Len(country_sales) :
              i < j => /\ country_sales[i].country # country_sales[j].country
                       /\ country_sales[i].sales >= country_sales[j].sales
        /\ \A c \in view_countries :
              (\A i \in 1..Len(country_sales) : country_sales[i].country # c) =>
                  country_total(c) <= country_sales[Len(country_sales)].sales

\* C9, as claimed: moreover countries with equal sales are listed in the order in
\* which the view first shows them.
C9_FirstSeenTies ==
    Computed =>
        /\ Len(country_sales) = Min(10, Cardinality(view_countries))
        /\ \A i, j \in 1..Len(country_sales) :
              i < j => country_sales[i].sales >= country_sales[j].sales
        /\ \A i, j \in 1..Len(country_sales) :
              (i < j /\ country_sales[i].sales = country_sales[j].sales) =>
                  first_seen(country_sales[i].country) < first_seen(country_sales[j].country)

\* two countries with equal sales, listed against the order in which the view shows them
C9_Witness ==
    /\ Computed
    /\ \E i, j \in 1..Len(country_sales) :
          /\ i < j
          /\ country_sales[i].sales = country_sales[j].sales
          /\ first_seen(country_sales[i].country) > first_seen(country_sales[j].country)

\* C10: with the countries and months unchanged, a year range that contains the
\* selected one gives a total_sales at least as large.
C10_WiderYears ==
    Computed =>
        \A lo \in 2009..years[1], hi \in years[2]..2012 :
            total_sales_of(filter_rows(df, countries, <<lo, hi>>, months)) >= total_sales

\* a selected year range that a wider one beats
C10_Witness ==
    /\ Computed
    /\ total_sales > 0
    /\ \E lo \in 2009..years[1], hi \in years[2]..2012 :
          total_sales_of(filter_rows(df, countries, <<lo, hi>>, months)) > total_sales

====
